---- MODULE Spec2Model ----
(***************************************************************************)
(* Marketplace API (src/main.py): a FastAPI layer over one MongoDB         *)
(* collection, "product".  The handlers are seed_products (POST /seed),    *)
(* list_products (GET /products), featured_products (GET                   *)
(* /products/featured) and test_database (GET /test).                      *)
(*                                                                         *)
(* Encoding.  Text that the store inspects (title, description, tags, q)   *)
(* is a sequence of one-character strings.  An Optional[T] query parameter *)
(* is << >> for None and <<v>> for a value v.  Prices are whole currency   *)
(* units (79.0 is 79) and ratings are tenths (4.7 is 47).  The store       *)
(* assigns every inserted document a fresh _id that the handlers pop       *)
(* before answering, so the collection is the bag of the payloads it       *)
(* holds: coll[i] is the number of stored copies of demo_products[i].      *)
(***************************************************************************)
EXTENDS Integers, Sequences, FiniteSets, TLC

(* ---- bounds of the model ---- *)
\* seed calls issued by clients in Spec and SpecSeq
NumSeeds == 4
\* seed calls issued by clients in SpecList
NumListSeeds == 1
\* collections of the database besides "product"
MaxOtherCollections == 10
\* longest text of an exception raised by list_collection_names
MaxErrLen == 51

(* ---- constants of the program ---- *)
\* limit=6 of featured_products
FeaturedLimit == 6
\* collections[:10] of test_database
CollectionsLimit == 10
\* str(e)[:50] of test_database
ErrTextLimit == 50

None == << >>
Some(v) == <<v>>
IsNone(o) == o = << >>
Val(o) == o[1]

\* the list literal of seed_products
demo_products ==
  <<
  [ title       |-> <<"V","e","l","v","e","t"," ","R","o","s","e"," ","E","a","u"," ","d","e"," ","P","a","r","f","u","m">>,
    description |-> <<"A"," ","l","u","s","h"," ","f","l","o","r","a","l"," ","f","r","a","g","r","a","n","c","e"," ","w","i","t","h"," ","n","o","t","e","s"," ","o","f"," ","r","o","s","e",","," ","a","m","b","e","r",","," ","a","n","d"," ","m","u","s","k",".">>,
    price       |-> 79,
    category    |-> "women",
    in_stock    |-> TRUE,
    image_url   |-> "https://images.unsplash.com/photo-1523292562811-8fa7962a78c8",
    brand       |-> "Aurelia",
    rating      |-> 47,
    tags        |-> <<<<"f","r","a","g","r","a","n","c","e">>, <<"p","e","r","f","u","m","e">>, <<"f","l","o","r","a","l">>>>,
    featured    |-> TRUE ],
  [ title       |-> <<"G","e","n","t","l","e","m","a","n"," ","G","r","o","o","m","i","n","g"," ","K","i","t">>,
    description |-> <<"C","o","m","p","l","e","t","e"," ","s","h","a","v","i","n","g"," ","a","n","d"," ","b","e","a","r","d"," ","c","a","r","e"," ","k","i","t"," ","w","i","t","h"," ","n","a","t","u","r","a","l"," ","o","i","l","s",".">>,
    price       |-> 59,
    category    |-> "men",
    in_stock    |-> TRUE,
    image_url   |-> "https://images.unsplash.com/photo-1600986603369-9d3d0f6f0f9b",
    brand       |-> "NordCraft",
    rating      |-> 45,
    tags        |-> <<<<"g","r","o","o","m","i","n","g">>, <<"k","i","t">>, <<"b","e","a","r","d">>>>,
    featured    |-> TRUE ],
  [ title       |-> <<"C","e","r","a","m","i","c"," ","W","a","v","e"," ","V","a","s","e">>,
    description |-> <<"M","i","n","i","m","a","l"," ","w","a","v","e","-","p","a","t","t","e","r","n"," ","v","a","s","e"," ","t","o"," ","e","l","e","v","a","t","e"," ","a","n","y"," ","i","n","t","e","r","i","o","r",".">>,
    price       |-> 39,
    category    |-> "home",
    in_stock    |-> TRUE,
    image_url   |-> "https://images.unsplash.com/photo-1523419409543-a7cf3f4e8d8f",
    brand       |-> "Haven",
    rating      |-> 46,
    tags        |-> <<<<"d","e","c","o","r">>, <<"v","a","s","e">>, <<"c","e","r","a","m","i","c">>>>,
    featured    |-> FALSE ],
  [ title       |-> <<"L","a","v","e","n","d","e","r"," ","S","i","l","k"," ","B","o","d","y"," ","L","o","t","i","o","n">>,
    description |-> <<"U","l","t","r","a","-","h","y","d","r","a","t","i","n","g"," ","l","o","t","i","o","n"," ","w","i","t","h"," ","c","a","l","m","i","n","g"," ","l","a","v","e","n","d","e","r",".">>,
    price       |-> 24,
    category    |-> "women",
    in_stock    |-> TRUE,
    image_url   |-> "https://images.unsplash.com/photo-1585386959984-a41552231658",
    brand       |-> "Serene",
    rating      |-> 44,
    tags        |-> <<<<"b","o","d","y">>, <<"l","o","t","i","o","n">>, <<"l","a","v","e","n","d","e","r">>>>,
    featured    |-> FALSE ],
  [ title       |-> <<"M","a","t","t","e"," ","S","t","o","n","e"," ","C","a","n","d","l","e"," ","H","o","l","d","e","r">>,
    description |-> <<"S","c","u","l","p","t","u","r","a","l"," ","h","o","l","d","e","r"," ","w","i","t","h"," ","a"," ","s","o","f","t"," ","m","a","t","t","e"," ","f","i","n","i","s","h",".">>,
    price       |-> 29,
    category    |-> "home",
    in_stock    |-> TRUE,
    image_url   |-> "https://images.unsplash.com/photo-1519710164239-da123dc03ef4",
    brand       |-> "Aura",
    rating      |-> 43,
    tags        |-> <<<<"d","e","c","o","r">>, <<"c","a","n","d","l","e">>>>,
    featured    |-> FALSE ]
  >>

DocIds == 1..Len(demo_products)


(***************************************************************************)
(* The document store (pymongo and the repository's database module).      *)
(***************************************************************************)
EmptyColl == [i \in DocIds |-> 0]

RECURSIVE SumTo(_, _)
SumTo(b, n) == IF n = 0 THEN 0 ELSE b[n] + SumTo(b, n - 1)

\* number of documents of a bag of documents
Size(b) == SumTo(b, Len(demo_products))

\* the stored payload equal to p
DocId(p) == CHOOSE i \in DocIds : demo_products[i] = p

UpperCase ==
  <<"A","B","C","D","E","F","G","H","I","J","K","L","M",
    "N","O","P","Q","R","S","T","U","V","W","X","Y","Z">>

LowerCase ==
  <<"a","b","c","d","e","f","g","h","i","j","k","l","m",
    "n","o","p","q","r","s","t","u","v","w","x","y","z">>

\* case folding of the "i" option
Lower(c) ==
  IF \E k \in 1..Len(UpperCase) : UpperCase[k] = c
  THEN LowerCase[CHOOSE k \in 1..Len(UpperCase) : UpperCase[k] = c]
  ELSE c

\* A $regex pattern the store cannot compile makes the find fail.  Of the
\* grouping characters the queries of the model hold only the unbalanced "(".
RegexValid(p) == \A k \in 1..Len(p) : p[k] \notin {"(", ")"}

\* Pattern p from position i on matches text t at position j, ignoring case.
\* The pattern language: a literal character, "." for any character, "^" as
\* the first and "$" as the last character of the pattern.
RECURSIVE MatchHere(_, _, _, _)
MatchHere(p, i, t, j) ==
  IF i > Len(p) THEN TRUE
  ELSE IF p[i] = "$" /\ i = Len(p) THEN j > Len(t)
  ELSE IF j <= Len(t) /\ (p[i] = "." \/ Lower(p[i]) = Lower(t[j]))
       THEN MatchHere(p, i + 1, t, j + 1)
       ELSE FALSE

\* {"$regex": p, "$options": "i"}: an unanchored, case-insensitive search
regex_search(p, t) ==
  IF Len(p) > 0 /\ p[1] = "^"
  THEN MatchHere(p, 2, t, 1)
  ELSE \E j \in 1..(Len(t) + 1) : MatchHere(p, 1, t, j)

\* the texts the store searches
StoredTexts ==
  {demo_products[i].title : i \in DocIds}
    \cup {demo_products[i].description : i \in DocIds}

\* regex_search tabulated: the pairs of a pattern of ps and a stored text
\* that it finds
RegexTable(ps) ==
  {y : y \in {x \in ps \X StoredTexts : regex_search(x[1], x[2])}}

\* the values of q that the clients of the model send
Queries ==
  { None, Some(<< >>),
    Some(<<"R","O","S","E">>),
    Some(<<"a","m","b","e","r">>),
    Some(<<"d","e","c","o","r">>),
    Some(<<"D","e","c","o","r">>),
    Some(<<"v",".","s","e">>),
    Some(<<"^","c">>),
    Some(<<"(">>) }

Patterns == {Val(q) : q \in Queries \ {None}}

RegexMemo == RegexTable(Patterns)

RegexSearch(p, t) ==
  IF p \in Patterns /\ t \in StoredTexts
  THEN <<p, t>> \in RegexMemo
  ELSE regex_search(p, t)

\* one clause of a "$or"
ClauseMatches(d, c) ==
  IF c.op = "$regex"
  THEN RegexSearch(c.arg, d[c.field])
  ELSE \E k \in 1..Len(d[c.field]) :
         \E m \in 1..Len(c.arg) : d[c.field][k] = c.arg[m]

\* whether stored document d satisfies the filter f of a find
DocMatches(d, f) ==
  /\ IsNone(f.category) \/ d.category = Val(f.category)
  /\ IsNone(f.featured) \/ d.featured = Val(f.featured)
  /\ \/ IsNone(f.price)
     \/ /\ IsNone(Val(f.price).gte) \/ d.price >= Val(Val(f.price).gte)
        /\ IsNone(Val(f.price).lte) \/ d.price <= Val(Val(f.price).lte)
  /\ \/ IsNone(f.or)
     \/ \E k \in 1..Len(Val(f.or)) : ClauseMatches(d, Val(f.or)[k])

\* whether the store accepts the filter f
FilterValid(f) ==
  \/ IsNone(f.or)
  \/ \A k \in 1..Len(Val(f.or)) :
       Val(f.or)[k].op = "$regex" => RegexValid(Val(f.or)[k].arg)

\* the filter {} of count_documents({})
NoFilter == [category |-> None, featured |-> None, price |-> None, or |-> None]

\* the documents of collection c that satisfy f
Matching(c, f) ==
  [i \in DocIds |-> IF DocMatches(demo_products[i], f) THEN c[i] ELSE 0]

\* db["product"].count_documents(f)
count_documents(c, f) == Size(Matching(c, f))

\* create_document("product", p): one insert of p
create_document(c, p) == [c EXCEPT ![DocId(p)] = @ + 1]

Min(a, b) == IF a <= b THEN a ELSE b

\* The bags of n documents out of the bag m.  The store promises no order
\* of a find without a sort, so a limited find may answer any of them.
Take(m, n) ==
  LET ids == {i \in DocIds : m[i] > 0}
      pad(f) == [i \in DocIds |-> IF i \in ids THEN f[i] ELSE 0]
  IN  {pad(f) : f \in {g \in [ids -> 0..n] :
                         /\ \A i \in ids : g[i] <= m[i]
                         /\ Size(pad(g)) = Min(n, Size(m))}}

\* get_documents("product", f, limit): the possible answers
get_documents(c, f, limit) ==
  IF IsNone(limit) THEN {Matching(c, f)} ELSE Take(Matching(c, f), Val(limit))

(***************************************************************************)
(* State.  The seed calls are anonymous requests, so the calls in flight   *)
(* are a bag: calls[c] is the number of seed calls whose state is c.       *)
(***************************************************************************)
VARIABLES
  db,      \* database.db: "None" when the store is unconfigured, else "Database"
  coll,    \* the "product" collection
  calls,   \* the seed calls: a bag of [pc, idx, count, ret, ops]
  reply    \* the response of the last list/featured/test call, until delivered

vars == <<db, coll, calls, reply>>

NoResponse == [status |-> 0, message |-> "", count |-> 0]
\* A response: req is the request's parameters and seen is what the store
\* held, or answered, when the handler asked it.
NoReply == [kind |-> "none", status |-> 0, detail |-> "", req |-> << >>,
            seen |-> << >>, body |-> << >>, ops |-> << >>]

\* HTTPException(status_code=500, detail="Database not configured")
NotConfigured == "Database not configured"

\* A seed call before its first step.  pc is "start", "insert" (in the loop)
\* or "done"; idx counts the demo products its loop has inserted; count is its
\* local of that name; ret is its response; ops are the store operations it
\* has issued.
StartCall ==
  [pc |-> "start", idx |-> 0, count |-> 0, ret |-> NoResponse, ops |-> << >>]

\* the bag b with one e more, and with one e less
Add(b, e) ==
  IF e \in DOMAIN b
  THEN [b EXCEPT ![e] = @ + 1]
  ELSE [x \in DOMAIN b \cup {e} |-> IF x = e THEN 1 ELSE b[x]]
Remove(b, e) ==
  IF b[e] = 1
  THEN [x \in DOMAIN b \ {e} |-> b[x]]
  ELSE [b EXCEPT ![e] = @ - 1]

\* call c takes a step to state d
Step(c, d) == calls' = Add(Remove(calls, c), d)

RECURSIVE Total(_, _)
Total(b, S) ==
  IF S = {} THEN 0
  ELSE LET e == CHOOSE x \in S : TRUE IN b[e] + Total(b, S \ {e})

\* the number of seed calls whose pc is p
NumAt(p) == Total(calls, {c \in DOMAIN calls : c.pc = p})

\* n seed calls are about to be made against an empty collection
InitWith(n) ==
  /\ db \in {"None", "Database"}
  /\ coll = EmptyColl
  /\ calls = [c \in {StartCall} |-> n]
  /\ reply = NoReply

(***************************************************************************)
(* seed_products.  Every store call is one step; the calls of different    *)
(* requests interleave freely (the handlers run on a thread pool and take  *)
(* no lock).                                                               *)
(***************************************************************************)
\* seed_count with the early return taken only above the catalog's size
seed_count_late(c, d, cl) ==
  IF d = "None"
  THEN [c EXCEPT !.pc = "done",
                 !.ret = [status |-> 500, message |-> NotConfigured,
                          count |-> 0]]
  ELSE LET n == count_documents(cl, NoFilter) IN
       IF n > Len(demo_products)
       THEN [c EXCEPT !.pc = "done", !.count = n,
                      !.ops = Append(@, "count_documents"),
                      !.ret = [status |-> 200,
                               message |-> "Catalog already seeded",
                               count |-> n]]
       ELSE [c EXCEPT !.pc = "insert", !.count = n,
                      !.ops = Append(@, "count_documents")]

\* seed_count without the db check
seed_count_unchecked(c, d, cl) ==
  LET n == count_documents(cl, NoFilter) IN
  IF n > 0
  THEN [c EXCEPT !.pc = "done", !.count = n,
                 !.ops = Append(@, "count_documents"),
                 !.ret = [status |-> 200,
                          message |-> "Catalog already seeded",
                          count |-> n]]
  ELSE [c EXCEPT !.pc = "insert", !.count = n,
                 !.ops = Append(@, "count_documents")]

\* lines 56-60: the state of call c after the db check, the count and the
\* early return
seed_count(c, d, cl) ==
  IF d = "None"
  THEN [c EXCEPT !.pc = "done",
                 !.ret = [status |-> 500, message |-> NotConfigured,
                          count |-> 0]]
  ELSE LET n == count_documents(cl, NoFilter) IN
       IF n > 0
       THEN [c EXCEPT !.pc = "done", !.count = n,
                      !.ops = Append(@, "count_documents"),
                      !.ret = [status |-> 200,
                               message |-> "Catalog already seeded",
                               count |-> n]]
       ELSE [c EXCEPT !.pc = "insert", !.count = n,
                      !.ops = Append(@, "count_documents")]

SeedCount ==
  /\ \E c \in DOMAIN calls :
       /\ c.pc = "start"
       /\ Step(c, seed_count(c, db, coll))
  /\ UNCHANGED <<db, coll, reply>>

\* seed_next stuck on the first demo product
seed_next_first(c) == demo_products[1]

\* lines 123-124: the document that the next turn of the loop inserts
seed_next(c) == demo_products[c.idx + 1]

SeedInsert ==
  /\ \E c \in DOMAIN calls :
       /\ c.pc = "insert"
       /\ c.idx < Len(demo_products)
       /\ coll' = create_document(coll, seed_next(c))
       /\ Step(c, [c EXCEPT !.idx = @ + 1, !.ops = Append(@, "insert_one")])
  /\ UNCHANGED <<db, reply>>

\* seed_return answering with the count it read
seed_return_count(c) ==
  [status |-> 200, message |-> "Catalog seeded", count |-> c.count]

\* seed_return answering with the message of the early return
seed_return_already(c) ==
  [status |-> 200, message |-> "Catalog already seeded",
   count |-> Len(demo_products)]

\* line 125: the response after the loop
seed_return(c) ==
  [status |-> 200, message |-> "Catalog seeded", count |-> Len(demo_products)]

SeedReturn ==
  /\ \E c \in DOMAIN calls :
       /\ c.pc = "insert"
       /\ c.idx = Len(demo_products)
       /\ Step(c, [c EXCEPT !.pc = "done", !.ret = seed_return(c)])
  /\ UNCHANGED <<db, coll, reply>>

(***************************************************************************)
(* list_products.                                                          *)
(***************************************************************************)
\* Python truthiness of an Optional[str]
TruthyStr(o) == ~IsNone(o) /\ Val(o) # ""
TruthyText(o) == ~IsNone(o) /\ Len(Val(o)) > 0

\* lines 145-146
filter_category(r) ==
  IF TruthyStr(r.category) THEN Some(Val(r.category)) ELSE None

\* filter_featured by truthiness: "if featured:"
filter_featured_truthy(r) ==
  IF ~IsNone(r.featured) /\ Val(r.featured) THEN Some(Val(r.featured)) ELSE None

\* lines 147-148
filter_featured(r) ==
  IF ~IsNone(r.featured) THEN Some(Val(r.featured)) ELSE None

\* Python truthiness of an Optional[float]
TruthyNum(o) == ~IsNone(o) /\ Val(o) # 0

\* filter_price by truthiness: "if min_price:", "if max_price:"
filter_price_truthy(r) ==
  IF TruthyNum(r.min_price) \/ TruthyNum(r.max_price)
  THEN Some([gte |-> IF TruthyNum(r.min_price) THEN r.min_price ELSE None,
             lte |-> IF TruthyNum(r.max_price) THEN r.max_price ELSE None])
  ELSE None

\* lines 149-155; float() of a float is that float
filter_price(r) ==
  IF ~IsNone(r.min_price) \/ ~IsNone(r.max_price)
  THEN Some([gte |-> IF ~IsNone(r.min_price) THEN r.min_price ELSE None,
             lte |-> IF ~IsNone(r.max_price) THEN r.max_price ELSE None])
  ELSE None

\* lines 156-161
filter_or(r) ==
  IF TruthyText(r.q)
  THEN Some(<<
    [field |-> "title", op |-> "$regex", arg |-> Val(r.q), options |-> "i"],
    [field |-> "description", op |-> "$regex", arg |-> Val(r.q),
     options |-> "i"],
    [field |-> "tags", op |-> "$in", arg |-> <<Val(r.q)>>, options |-> ""] >>)
  ELSE None

\* lines 144-161: the filter built from the query parameters
list_filters(r) ==
  [ category |-> filter_category(r),
    featured |-> filter_featured(r),
    price    |-> filter_price(r),
    or       |-> filter_or(r) ]

Categories == {None, Some(""), Some("women"), Some("men")}
FeaturedFlags == {None, Some(TRUE), Some(FALSE)}
MinPrices == {None, Some(0), Some(demo_products[5].price),
              Some(demo_products[2].price + 1)}
MaxPrices == {None, Some(0), Some(demo_products[2].price)}
Requests ==
  [category : Categories, q : Queries, featured : FeaturedFlags,
   min_price : MinPrices, max_price : MaxPrices]

\* lines 142-169
ListProducts(r) ==
  /\ reply = NoReply
  /\ IF db = "None"
     THEN reply' = [kind |-> "list", status |-> 500, detail |-> NotConfigured,
                    req |-> r, seen |-> << >>, body |-> EmptyColl,
                    ops |-> << >>]
     ELSE IF ~FilterValid(list_filters(r))
     THEN reply' = [kind |-> "list", status |-> 500,
                    detail |-> "Internal Server Error",
                    req |-> r, seen |-> coll, body |-> EmptyColl,
                    ops |-> <<"find">>]
     ELSE \E docs \in get_documents(coll, list_filters(r), None) :
            reply' = [kind |-> "list", status |-> 200, detail |-> "",
                      req |-> r, seen |-> coll, body |-> docs,
                      ops |-> <<"find">>]
  /\ UNCHANGED <<db, coll, calls>>

(***************************************************************************)
(* featured_products.                                                      *)
(***************************************************************************)
\* featured_products without its filter
featured_filter_none == NoFilter

\* the filter {"featured": True} of line 175
featured_filter == [NoFilter EXCEPT !.featured = Some(TRUE)]

\* lines 173-180
FeaturedProducts ==
  /\ reply = NoReply
  /\ IF db = "None"
     THEN reply' = [kind |-> "featured", status |-> 500,
                    detail |-> NotConfigured,
                    req |-> << >>, seen |-> << >>, body |-> EmptyColl,
                    ops |-> << >>]
     ELSE \E docs \in get_documents(coll, featured_filter, Some(FeaturedLimit)) :
            reply' = [kind |-> "featured", status |-> 200, detail |-> "",
                      req |-> << >>, seen |-> coll, body |-> docs,
                      ops |-> <<"find">>]
  /\ UNCHANGED <<db, coll, calls>>

(***************************************************************************)
(* test_database.                                                          *)
(***************************************************************************)
\* s[:n]
Slice(s, n) == SubSeq(s, 1, Min(n, Len(s)))

\* an exception text of n characters
ErrorText(n) == [k \in 1..n |-> k]

ErrLens == {0, ErrTextLimit} \cup (ErrTextLimit + 1)..MaxErrLen

\* the collection names of the database: "product" once it holds a document,
\* and k others
CollectionNames(c, k) ==
  (IF Size(c) > 0 THEN << <<"product", 0>> >> ELSE << >>)
    \o [j \in 1..k |-> <<"other", j>>]

\* what db.list_collection_names() may do: answer, or raise
ListOutcomes(c) ==
  {[ok |-> TRUE, names |-> CollectionNames(c, k), error |-> << >>] :
     k \in {0} \cup (CollectionsLimit - 1)..MaxOtherCollections}
  \cup {[ok |-> FALSE, names |-> << >>, error |-> ErrorText(n)] : n \in ErrLens}

\* error_text without the slice
error_text_whole(e) == e

\* str(e)[:50] of line 46
error_text(e) == Slice(e, ErrTextLimit)

\* lines 27-51: the response, given os.getenv("DATABASE_URL") and the outcome
\* of list_collection_names
test_database(d, env, out) ==
  LET response == [backend |-> "Running",
                   database |-> [text |-> "Not Available", error |-> << >>],
                   database_url |-> "None",
                   database_name |-> "None",
                   connection_status |-> "Not Connected",
                   collections |-> << >>]
  IN  IF d # "None"
      THEN LET r1 == [response EXCEPT
                        !.database_url = IF env THEN "Set" ELSE "Not Set",
                        !.database_name = "db.name",
                        !.connection_status = "Connected"]
           IN  IF out.ok
               THEN [r1 EXCEPT
                       !.collections = Slice(out.names, CollectionsLimit),
                       !.database = [text |-> "Connected & Working",
                                     error |-> << >>]]
               ELSE [r1 EXCEPT
                       !.database = [text |-> "Connected but Error: ",
                                     error |-> error_text(out.error)]]
      ELSE [response EXCEPT
              !.database = [text |-> "Available but not initialized",
                            error |-> << >>]]

\* lines 25-51
TestDatabase ==
  /\ reply = NoReply
  /\ \E env \in BOOLEAN :
       IF db = "None"
       THEN reply' = [kind |-> "test", status |-> 200, detail |-> "",
                      req |-> << >>, seen |-> << >>,
                      body |-> test_database(db, env, [ok |-> TRUE,
                                 names |-> << >>, error |-> << >>]),
                      ops |-> << >>]
       ELSE \E out \in ListOutcomes(coll) :
              reply' = [kind |-> "test", status |-> 200, detail |-> "",
                        req |-> << >>, seen |-> out,
                        body |-> test_database(db, env, out),
                        ops |-> <<"list_collection_names">>]
  /\ UNCHANGED <<db, coll, calls>>

\* the response reaches the client, which may then send its next request
Deliver ==
  /\ reply # NoReply
  /\ reply' = NoReply
  /\ UNCHANGED <<db, coll, calls>>

(***************************************************************************)
(* Specifications.                                                         *)
(***************************************************************************)
Init == InitWith(NumSeeds)

Next ==
  \/ SeedCount
  \/ SeedInsert
  \/ SeedReturn
  \/ FeaturedProducts
  \/ TestDatabase
  \/ Deliver

\* seed calls racing one another, with the handlers that read
Spec == Init /\ [][Next]_vars

\* a seed call starts only when no other is between its first and last step
SeedCountAlone == NumAt("insert") = 0 /\ SeedCount

SeqNext ==
  \/ SeedCountAlone
  \/ SeedInsert
  \/ SeedReturn
  \/ FeaturedProducts
  \/ TestDatabase
  \/ Deliver

\* seed calls that do not overlap
SpecSeq == Init /\ [][SeqNext]_vars

ListInit == InitWith(NumListSeeds)

ListNext ==
  \/ SeedCount
  \/ SeedInsert
  \/ SeedReturn
  \/ \E r \in Requests : ListProducts(r)
  \/ FeaturedProducts
  \/ Deliver

\* the queries of list_products against the collection as seeding fills it
SpecList == ListInit /\ [][ListNext]_vars

(***************************************************************************)
(* Properties.                                                             *)
(***************************************************************************)
Seeded(c) == c.pc = "done" /\ c.ret.message = "Catalog seeded"
Already(c) == c.pc = "done" /\ c.ret.message = "Catalog already seeded"

\* the number of seed calls that have returned "Catalog seeded"
NumSeeded == Total(calls, {c \in DOMAIN calls : Seeded(c)})
NumCalls == Total(calls, DOMAIN calls)
AllDone == NumAt("done") = NumCalls

\* every demo product n times; the first n demo products once each
Copies(n) == [i \in DocIds |-> n]
FirstOnce(n) == [i \in DocIds |-> IF i <= n THEN 1 ELSE 0]

\* the store operations of a seed call that ran to the end of its loop
SeedOps == <<"count_documents">> \o [k \in DocIds |-> "insert_one"]

\* the final state of a seed call that found n documents
AlreadySeeded(n) ==
  [pc |-> "done", idx |-> 0, count |-> n, ops |-> <<"count_documents">>,
   ret |-> [status |-> 200, message |-> "Catalog already seeded", count |-> n]]

\* C1: with the store configured, a seed call that runs alone and finds the
\* collection empty inserts the 5 demo products once each, in order, so that
\* the collection goes from 0 to 5 documents, and returns "Catalog seeded"
\* with count = 5.
C1_SeedOfEmpty ==
  db = "Database" =>
    \A c \in DOMAIN calls :
      /\ c.pc = "insert" => c.count = 0 /\ coll = FirstOnce(c.idx)
      /\ c.pc = "done" /\ c.count = 0 =>
           /\ c.ret = [status |-> 200, message |-> "Catalog seeded", count |-> 5]
           /\ c.ops = SeedOps
           /\ coll = Copies(1)
           /\ Size(coll) = 5

C1_Witness ==
  /\ db = "Database"
  /\ NumAt("done") = 1
  /\ \E c \in DOMAIN calls : Seeded(c) /\ c.count = 0 /\ c.ret.count = 5
  /\ Size(coll) = 5

\* C2: a seed call that finds n > 0 documents inserts nothing, leaves the
\* collection as it was and returns "Catalog already seeded" with count = n;
\* so with seed calls that do not overlap the collection holds exactly the 5
\* demo products after the first call and after every later one.
C2_SeedOfNonEmpty ==
  /\ [](db = "Database" /\ NumAt("done") >= 1 /\ NumAt("insert") = 0
          => coll = Copies(1) /\ Size(coll) = 5)
  /\ [][db = "Database" /\ Size(coll) > 0 /\ NumAt("start")' < NumAt("start")
          => /\ coll' = coll
             /\ calls' = Add(Remove(calls, StartCall), AlreadySeeded(Size(coll)))
       ]_vars

C2_Witness ==
  /\ db = "Database"
  /\ NumAt("done") >= 3
  /\ NumSeeded = 1
  /\ AlreadySeeded(5) \in DOMAIN calls
  /\ coll = Copies(1)

\* C3: when two overlapping seed calls have both returned "Catalog seeded"
\* (and no third is inserting), both read count = 0, both inserted all 5 demo
\* products, and the collection holds 10 documents, every demo product twice.
C3_RaceDuplicates ==
  NumSeeded = 2 /\ NumAt("insert") = 0 =>
    /\ \A c \in DOMAIN calls : Seeded(c) => c.count = 0 /\ c.ops = SeedOps
    /\ coll = Copies(2)
    /\ Size(coll) = 10

C3_Witness ==
  /\ NumSeeded = 2
  /\ NumAt("insert") = 0
  /\ coll = Copies(2)
  /\ Size(coll) = 10

\* C10: with seed calls and reads interleaved in any way from an empty
\* collection, the collection never shrinks and changes only by the insert of
\* a seed call; it holds, of each demo product, one copy per seed call whose
\* loop has passed it; a call that returned "Catalog already seeded" inserted
\* nothing, whatever count it read; and once every call has finished the size
\* is 5 times the number of calls that returned "Catalog seeded", which is at
\* least one.
C10_SeedAccounting ==
  /\ [](db = "Database" =>
          /\ \A i \in DocIds :
               coll[i] = Total(calls, {c \in DOMAIN calls : c.idx >= i})
          /\ \A c \in DOMAIN calls :
               /\ Already(c) => c = AlreadySeeded(c.count) /\ c.count >= 1
               /\ Seeded(c) => c.idx = 5 /\ c.ops = SeedOps
          /\ AllDone =>
               /\ Size(coll) = 5 * NumSeeded
               /\ coll = Copies(NumSeeded)
               /\ NumSeeded >= 1)
  /\ [][\/ coll' = coll
        \/ /\ \A i \in DocIds : coll'[i] >= coll[i]
           /\ Size(coll') = Size(coll) + 1
           /\ calls' # calls
           /\ reply' = reply
       ]_vars

C10_Witness ==
  /\ db = "Database"
  /\ AllDone
  /\ NumSeeded >= 2
  /\ \E c \in DOMAIN calls : Already(c) /\ c.count \in 1..4
  /\ Size(coll) = 5 * NumSeeded

\* the featured documents of a collection
FeaturedIn(c) == [i \in DocIds |-> IF demo_products[i].featured THEN c[i] ELSE 0]

\* C4: whatever the collection holds, featured_products returns at most 6
\* items, each a stored document with featured = true, and all of them when
\* the collection holds at most 6 featured documents.
C4_FeaturedLimit ==
  reply.kind = "featured" /\ db = "Database" =>
    /\ reply.status = 200
    /\ Size(reply.body) <= 6
    /\ \A i \in DocIds : reply.body[i] <= FeaturedIn(reply.seen)[i]
    /\ Size(FeaturedIn(reply.seen)) <= 6 => reply.body = FeaturedIn(reply.seen)

C4_Witness ==
  /\ reply.kind = "featured"
  /\ reply.status = 200
  /\ Size(FeaturedIn(reply.seen)) > 6
  /\ Size(reply.body) = 6

\* a successful answer of list_products
Listed == reply.kind = "list" /\ reply.status = 200

\* what the store holds that passes the filter of request r
Passing(r) == Matching(reply.seen, list_filters(r))

FeaturedOK(r, d) == IsNone(r.featured) \/ d.featured = Val(r.featured)

\* C5 as amended: list_products returns exactly the stored documents that
\* pass the other filters and whose category equals the requested one, when
\* a non-empty category is given, and whose featured flag equals the requested
\* one, when featured is given; an absent filter, and also an empty category,
\* restricts nothing.
C5_CategoryAndFeatured ==
  Listed =>
    LET r == reply.req
        rest == Passing([r EXCEPT !.category = None, !.featured = None])
        ok(d) == /\ \/ IsNone(r.category)
                    \/ Val(r.category) = ""
                    \/ d.category = Val(r.category)
                 /\ FeaturedOK(r, d)
    IN  \A i \in DocIds :
          reply.body[i] = IF ok(demo_products[i]) THEN rest[i] ELSE 0

C5_Witness ==
  /\ Listed
  /\ reply.req.category = Some("men")
  /\ reply.req.featured = Some(TRUE)
  /\ Size(reply.seen) = 5
  /\ Size(reply.body) = 1
  /\ reply.body[2] = 1

\* C5 as claimed: the same for every category value that is passed, the
\* empty one included.
C5_EveryCategoryValue ==
  Listed =>
    LET r == reply.req
        rest == Passing([r EXCEPT !.category = None, !.featured = None])
        ok(d) == /\ IsNone(r.category) \/ d.category = Val(r.category)
                 /\ FeaturedOK(r, d)
    IN  \A i \in DocIds :
          reply.body[i] = IF ok(demo_products[i]) THEN rest[i] ELSE 0

PriceOK(r, d) ==
  /\ IsNone(r.min_price) \/ d.price >= Val(r.min_price)
  /\ IsNone(r.max_price) \/ d.price <= Val(r.max_price)

\* C6: list_products returns exactly the stored documents that pass the other
\* filters and whose price p has min_price <= p when min_price is given and
\* p <= max_price when max_price is given, both bounds included, also for a
\* bound of 0 and for one bound alone; with min_price > max_price it returns
\* nothing.
C6_PriceRange ==
  Listed =>
    LET r == reply.req
        rest == Passing([r EXCEPT !.min_price = None, !.max_price = None])
    IN  /\ \A i \in DocIds :
             reply.body[i] = IF PriceOK(r, demo_products[i]) THEN rest[i] ELSE 0
        /\ (/\ ~IsNone(r.min_price)
            /\ ~IsNone(r.max_price)
            /\ Val(r.min_price) > Val(r.max_price)) => Size(reply.body) = 0

C6_Witness ==
  /\ Listed
  /\ ~IsNone(reply.req.min_price)
  /\ ~IsNone(reply.req.max_price)
  /\ \E i, j \in DocIds :
       /\ i # j
       /\ demo_products[i].price = Val(reply.req.min_price)
       /\ demo_products[j].price = Val(reply.req.max_price)
       /\ reply.body[i] = 1
       /\ reply.body[j] = 1

\* q occurs in t as a substring, ignoring case
Contains(t, q) ==
  \E j \in 0..(Len(t) - Len(q)) :
    \A k \in 1..Len(q) : Lower(t[j + k]) = Lower(q[k])

TextOK(r, d) ==
  \/ IsNone(r.q)
  \/ Contains(d.title, Val(r.q))
  \/ Contains(d.description, Val(r.q))
  \/ \E k \in 1..Len(d.tags) : d.tags[k] = Val(r.q)

\* C7: for every query string q, list_products returns exactly the stored
\* documents that pass the other filters and in which q occurs, ignoring
\* case, as a substring of the title or of the description, or is equal to
\* one of the tags.
C7_TextCondition ==
  Listed =>
    LET r == reply.req
        rest == Passing([r EXCEPT !.q = None])
    IN  \A i \in DocIds :
          reply.body[i] = IF TextOK(r, demo_products[i]) THEN rest[i] ELSE 0

\* C8: with the store unconfigured, seed_products, list_products and
\* featured_products each answer 500 "Database not configured" without
\* having issued a store operation, and the collection stays as it was.
C8_NotConfigured ==
  db = "None" =>
    /\ coll = EmptyColl
    /\ \A c \in DOMAIN calls :
         /\ c.pc \in {"start", "done"}
         /\ c.ops = << >>
         /\ c.pc = "done" =>
              c.ret = [status |-> 500, message |-> "Database not configured",
                       count |-> 0]
    /\ reply.kind \in {"list", "featured"} =>
         /\ reply.status = 500
         /\ reply.detail = "Database not configured"
         /\ reply.ops = << >>
         /\ Size(reply.body) = 0

C8_Witness ==
  /\ db = "None"
  /\ NumAt("done") >= 1
  /\ reply.kind = "list"
  /\ reply.status = 500

\* C9: test_database always answers normally; an exception of
\* list_collection_names is reported in the "database" field with its text
\* cut to its first 50 characters, and "collections" holds the first 10
\* names at most, none when the listing failed or the store is unconfigured.
C9_HealthCheck ==
  reply.kind = "test" =>
    LET b == reply.body IN
    /\ reply.status = 200
    /\ Len(b.database.error) <= 50
    /\ Len(b.collections) <= 10
    /\ db = "None" => b.collections = << >> /\ b.database.error = << >>
    /\ db # "None" /\ ~reply.seen.ok =>
         /\ b.collections = << >>
         /\ b.database.text = "Connected but Error: "
         /\ b.database.error =
              SubSeq(reply.seen.error, 1, Min(50, Len(reply.seen.error)))
    /\ db # "None" /\ reply.seen.ok =>
         /\ b.database.error = << >>
         /\ b.collections =
              SubSeq(reply.seen.names, 1, Min(10, Len(reply.seen.names)))

C9_Witness ==
  /\ reply.kind = "test"
  /\ db # "None"
  /\ ~reply.seen.ok
  /\ Len(reply.seen.error) > 50
  /\ Len(reply.body.database.error) = 50

====
